---- MODULE Spec2Model ----
(***************************************************************************)
(* Model of scripts/data_refresh.py: the MarketingDataRefresh object, its  *)
(* four pipeline stages, the files they exchange under data/processed/,    *)
(* the refresh-status report, and the scheduler that calls full_refresh    *)
(* again and again on the same object.                                     *)
(*                                                                         *)
(* Numbers: money and counters are integers.  A value the code rounds to   *)
(* two decimals is held in hundredths (roi_percentage = -5000 is -50.00),  *)
(* click_through_rate, rounded to four decimals, in ten-thousandths.       *)
(* Rounding is Python's round(): half to even, here on exact quotients.    *)
(* profitability_score is not rounded by the code and is held as an exact  *)
(* fraction <<numerator, denominator>>.                                    *)
(***************************************************************************)
EXTENDS Integers, Sequences, FiniteSets

VARIABLES
    pc,             \* position of the scheduler / full_refresh
    cycle,          \* number of full_refresh runs started; also the clock
    engine,         \* self.engine: 0 is None, n > 0 the n-th engine created
    created,        \* number of engines create_engine has returned
    refresh_status, \* self.refresh_status
    success_count,  \* local of full_refresh
    returned,       \* value returned by the last finished full_refresh
    calls,          \* stage calls of the current run, with their return value
    campaign_csv,   \* data/processed/campaign_data_latest.csv
    budget_csv,     \* data/processed/budget_data_latest.csv
    kpi_csv,        \* data/processed/kpi_metrics_latest.csv
    alerts_csv,     \* data/processed/performance_alerts.csv
    status_json,    \* logs/refresh_status_<day>.json
    alerts,         \* local list `alerts` of the last generate_alerts
    mail_calls,     \* send_alert_email calls of the current run
    outbox          \* alert list the SMTP server took in the current run

vars == <<pc, cycle, engine, created, refresh_status, success_count, returned,
          calls, campaign_csv, budget_csv, kpi_csv, alerts_csv, status_json,
          alerts, mail_calls, outbox>>

\* ---------------------------------------------------------------- bounds
MaxCycles == 2
MaxRows == 2
MaxBudgetRows == 1

\* ------------------------------------------------------------ input data
\* Rows the marketing_campaigns table can hold (campaign_id is its key).
Campaigns ==
    { [campaign_id |-> 1, total_spend |-> 0, revenue_generated |-> 0,
       leads_generated |-> 0, conversions |-> 0, clicks |-> 0, impressions |-> 0],
      [campaign_id |-> 2, total_spend |-> 15000, revenue_generated |-> 13500,
       leads_generated |-> 100, conversions |-> 3, clicks |-> 40, impressions |-> 1000],
      [campaign_id |-> 3, total_spend |-> 300, revenue_generated |-> 400,
       leads_generated |-> 7, conversions |-> 1, clicks |-> 50, impressions |-> 1200] }

\* Result sets of the campaign query: up to MaxRows rows, no key twice.
CampaignLists ==
    { s \in UNION { [1..n -> Campaigns] : n \in 0..MaxRows } :
        \A i, j \in DOMAIN s : i # j => s[i].campaign_id # s[j].campaign_id }

Stages == <<"campaign_data", "budget_data", "kpi_calculation", "alerts">>
StageNames == { Stages[i] : i \in 1..4 }

\* ------------------------------------------------------------ CSV files
NoFile == [exists |-> FALSE]

\* DataFrame.to_csv(path, index=False): the header line lists the frame's
\* columns.  A frame built from a list of dicts has the dicts' keys as its
\* columns, so one built from the empty list has no column at all.
ToCsv(hasColumns, rows) == [exists |-> TRUE, header |-> hasColumns, rows |-> rows]

\* pd.read_csv(path) raises when the file is missing (FileNotFoundError) or
\* holds no header to parse (EmptyDataError).
CsvReadable(file) == file.exists /\ file.header

\* ------------------------------------------------------- KPI calculator
\* round(n / d, k) for d > 0, with n already scaled by 10^k: half to even.
RoundDiv(n, d) ==
    LET q == n \div d
        r == n % d
    IN  IF 2 * r < d THEN q
        ELSE IF 2 * r > d THEN q + 1
        ELSE IF q % 2 = 0 THEN q ELSE q + 1

Roi100(row) ==
    IF row.total_spend > 0
    THEN RoundDiv((row.revenue_generated - row.total_spend) * 10000, row.total_spend)
    ELSE 0

Cpl100(row) ==
    IF row.leads_generated > 0
    THEN RoundDiv(row.total_spend * 100, row.leads_generated)
    ELSE 0

Cpa100(row) ==
    IF row.conversions > 0
    THEN RoundDiv(row.total_spend * 100, row.conversions)
    ELSE 0

ConversionRate100(row) ==
    IF row.leads_generated > 0
    THEN RoundDiv(row.conversions * 10000, row.leads_generated)
    ELSE 0

Ctr10000(row) ==
    IF row.impressions > 0
    THEN RoundDiv(row.clicks * 1000000, row.impressions)
    ELSE 0

\* max(0, roi / 30): the score without its upper cap.
ProfitabilityScoreUncapped(row) ==
    LET num == (row.revenue_generated - row.total_spend) * 100
        den == row.total_spend * 30
    IN  IF row.total_spend > 0 /\ num > 0 THEN <<num, den>> ELSE <<0, 1>>

\* min(10, max(0, roi / 30)) on the unrounded roi, as a fraction.
ProfitabilityScore(row) ==
    LET num == (row.revenue_generated - row.total_spend) * 100
        den == row.total_spend * 30
    IN  IF row.total_spend > 0
        THEN IF num <= 0 THEN <<0, 1>>
             ELSE IF num >= 10 * den THEN <<10, 1>>
             ELSE <<num, den>>
        ELSE <<0, 1>>

KpiOf(row, now) ==
    [campaign_id          |-> row.campaign_id,
     roi_percentage       |-> Roi100(row),
     cost_per_lead        |-> Cpl100(row),
     cost_per_acquisition |-> Cpa100(row),
     conversion_rate      |-> ConversionRate100(row),
     click_through_rate   |-> Ctr10000(row),
     total_investment     |-> row.total_spend,
     total_revenue        |-> row.revenue_generated,
     net_profit           |-> row.revenue_generated - row.total_spend,
     profitability_score  |-> ProfitabilityScore(row),
     last_updated         |-> now]

ComputeKpis(rows, now) == [i \in 1..Len(rows) |-> KpiOf(rows[i], now)]

\* ------------------------------------------------------ alert evaluator
NegativeRoi(kpi) == kpi.roi_percentage < 0
HighCostPerLead(kpi) == kpi.cost_per_lead > 100 * 100
LowConversion(kpi) == kpi.conversion_rate < 5 * 100

\* The three dicts appended to `alerts`; campaign_name and channel travel
\* with campaign_id, `current` is the formatted current_* value.
NegativeRoiAlert(kpi) ==
    [type |-> "Critical", campaign_id |-> kpi.campaign_id, issue |-> "Negative ROI",
     current |-> kpi.roi_percentage, priority |-> "High"]

HighCostPerLeadAlert(kpi) ==
    [type |-> "Warning", campaign_id |-> kpi.campaign_id, issue |-> "High Cost Per Lead",
     current |-> kpi.cost_per_lead, priority |-> "Medium"]

LowConversionAlert(kpi) ==
    [type |-> "Warning", campaign_id |-> kpi.campaign_id, issue |-> "Low Conversion Rate",
     current |-> kpi.conversion_rate, priority |-> "Medium"]

\* kpi_data[mask].iterrows() with an append per row, once per rule
NegativeRoiAlerts(kpis) ==
    LET hit == SelectSeq(kpis, NegativeRoi)
    IN  [i \in 1..Len(hit) |-> NegativeRoiAlert(hit[i])]

HighCostPerLeadAlerts(kpis) ==
    LET hit == SelectSeq(kpis, HighCostPerLead)
    IN  [i \in 1..Len(hit) |-> HighCostPerLeadAlert(hit[i])]

LowConversionAlerts(kpis) ==
    LET hit == SelectSeq(kpis, LowConversion)
    IN  [i \in 1..Len(hit) |-> LowConversionAlert(hit[i])]

\* One alert per record, for the first rule the record breaks.
EvaluateAlertsMerged(kpis) ==
    LET BreaksSome(kpi) == NegativeRoi(kpi) \/ HighCostPerLead(kpi) \/ LowConversion(kpi)
        First(kpi) == IF NegativeRoi(kpi) THEN NegativeRoiAlert(kpi)
                      ELSE IF HighCostPerLead(kpi) THEN HighCostPerLeadAlert(kpi)
                      ELSE LowConversionAlert(kpi)
        hit == SelectSeq(kpis, BreaksSome)
    IN  [i \in 1..Len(hit) |-> First(hit[i])]

EvaluateAlerts(kpis) ==
    NegativeRoiAlerts(kpis) \o HighCostPerLeadAlerts(kpis) \o LowConversionAlerts(kpis)

\* send_alert_email(alerts): True without sending for an empty list, else
\* whatever the SMTP conversation gives.
SendAlertEmail(list, transportOk) == IF list = <<>> THEN TRUE ELSE transportOk

\* A stage that treats an unsent email as its own failure.
GoesOnAfterSendOnlyIfSent(sent) == sent

\* self.send_alert_email(alerts) is an expression statement: generate_alerts
\* drops the value and goes on to record its success.
GoesOnAfterSend(sent) == TRUE

\* ----------------------------------------------------------- status map
NoEntry == [status |-> "absent"]

\* 'records', 'campaigns_processed' and 'alerts_count' are all held in count
SuccessEntry(now, n) == [status |-> "success", timestamp |-> now, count |-> n]
ErrorEntry(now, e) == [status |-> "error", timestamp |-> now, error |-> e]

\* An assignment that rebuilds the map around the new entry.
RecordAlone(map, stage, entry) ==
    [s \in StageNames |-> IF s = stage THEN entry ELSE NoEntry]

\* self.refresh_status[stage] = entry
Record(map, stage, entry) == [map EXCEPT ![stage] = entry]

\* datetime.now(): the clock advances from run to run
Now == cycle

\* -------------------------------------------------------- full_refresh
\* A fail-fast pipeline: a failed stage sends the run straight to the report.
NextPcFailFast(stage, ok) ==
    IF ~ok THEN "save"
    ELSE CASE stage = "campaign_data"   -> "budget"
           [] stage = "budget_data"     -> "kpi"
           [] stage = "kpi_calculation" -> "alerts"
           [] stage = "alerts"          -> "save"

\* The statement that follows the call of `stage` in full_refresh.
NextPc(stage, ok) ==
    CASE stage = "campaign_data"   -> "budget"
      [] stage = "budget_data"     -> "kpi"
      [] stage = "kpi_calculation" -> "alerts"
      [] stage = "alerts"          -> "save"

FullRefreshResultLenient(count) == count >= 3

\* return success_count == 4
FullRefreshResult(count) == count = 4

\* if self.<stage>(): success_count += 1
Return(stage, ok) ==
    /\ calls' = Append(calls, [stage |-> stage, ok |-> ok])
    /\ success_count' = IF ok THEN success_count + 1 ELSE success_count
    /\ pc' = NextPc(stage, ok)

Init ==
    /\ pc = "idle"
    /\ cycle = 0
    /\ engine = 0
    /\ created = 0
    /\ refresh_status = [s \in StageNames |-> NoEntry]
    /\ success_count = 0
    /\ returned = FALSE
    /\ calls = <<>>
    /\ campaign_csv = NoFile
    /\ budget_csv = NoFile
    /\ kpi_csv = NoFile
    /\ alerts_csv = NoFile
    /\ status_json = NoFile
    /\ alerts = <<>>
    /\ mail_calls = 0
    /\ outbox = <<>>

\* schedule.run_pending() (or main with --immediate) enters full_refresh
FullRefreshStart ==
    /\ pc \in {"idle", "done"}
    /\ cycle < MaxCycles
    /\ pc' = "campaign"
    /\ cycle' = cycle + 1
    /\ success_count' = 0
    /\ calls' = <<>>
    /\ alerts' = <<>>
    /\ mail_calls' = 0
    /\ outbox' = <<>>
    /\ returned' = FALSE
    /\ UNCHANGED <<engine, created, refresh_status, campaign_csv, budget_csv,
                   kpi_csv, alerts_csv, status_json>>

\* connect_database with create_engine succeeding
Connected ==
    /\ created' = created + 1
    /\ engine' = created + 1

RefreshCampaignData ==
    /\ pc = "campaign"
    /\ \E connectOk \in BOOLEAN :
         IF ~connectOk
         THEN /\ Return("campaign_data", FALSE)
              /\ UNCHANGED <<engine, created, refresh_status, campaign_csv>>
         ELSE /\ Connected
              /\ \E queryOk \in BOOLEAN :
                   IF queryOk
                   THEN \E rows \in CampaignLists :
                          /\ campaign_csv' = ToCsv(TRUE, rows)
                          /\ refresh_status' = Record(refresh_status, "campaign_data",
                                                      SuccessEntry(Now, Len(rows)))
                          /\ Return("campaign_data", TRUE)
                   ELSE /\ refresh_status' = Record(refresh_status, "campaign_data",
                                                    ErrorEntry(Now, "query"))
                        /\ Return("campaign_data", FALSE)
                        /\ UNCHANGED campaign_csv
    /\ UNCHANGED <<cycle, returned, budget_csv, kpi_csv, alerts_csv, status_json,
                   alerts, mail_calls, outbox>>

RefreshBudgetData ==
    /\ pc = "budget"
    /\ \E connectOk \in BOOLEAN :
         IF engine = 0 /\ ~connectOk
         THEN /\ Return("budget_data", FALSE)
              /\ UNCHANGED <<engine, created, refresh_status, budget_csv>>
         ELSE /\ IF engine = 0 THEN Connected ELSE UNCHANGED <<engine, created>>
              /\ \E queryOk \in BOOLEAN :
                   IF queryOk
                   THEN \E n \in 0..MaxBudgetRows :
                          /\ budget_csv' = ToCsv(TRUE, n)
                          /\ refresh_status' = Record(refresh_status, "budget_data",
                                                      SuccessEntry(Now, n))
                          /\ Return("budget_data", TRUE)
                   ELSE /\ refresh_status' = Record(refresh_status, "budget_data",
                                                    ErrorEntry(Now, "query"))
                        /\ Return("budget_data", FALSE)
                        /\ UNCHANGED budget_csv
    /\ UNCHANGED <<cycle, returned, campaign_csv, kpi_csv, alerts_csv, status_json,
                   alerts, mail_calls, outbox>>

CalculateKpis ==
    /\ pc = "kpi"
    /\ IF ~CsvReadable(campaign_csv)
       THEN /\ refresh_status' = Record(refresh_status, "kpi_calculation",
                                        ErrorEntry(Now, "read"))
            /\ Return("kpi_calculation", FALSE)
            /\ UNCHANGED kpi_csv
       ELSE \E writeOk \in BOOLEAN :
              LET kpi_data == ComputeKpis(campaign_csv.rows, Now)
              IN  IF writeOk
                  THEN /\ kpi_csv' = ToCsv(kpi_data # <<>>, kpi_data)
                       /\ refresh_status' = Record(refresh_status, "kpi_calculation",
                                                   SuccessEntry(Now, Len(kpi_data)))
                       /\ Return("kpi_calculation", TRUE)
                  ELSE /\ refresh_status' = Record(refresh_status, "kpi_calculation",
                                                   ErrorEntry(Now, "write"))
                       /\ Return("kpi_calculation", FALSE)
                       /\ UNCHANGED kpi_csv
    /\ UNCHANGED <<cycle, engine, created, returned, campaign_csv, budget_csv,
                   alerts_csv, status_json, alerts, mail_calls, outbox>>

GenerateAlerts ==
    /\ pc = "alerts"
    /\ IF ~CsvReadable(kpi_csv)
       THEN /\ refresh_status' = Record(refresh_status, "alerts", ErrorEntry(Now, "read"))
            /\ Return("alerts", FALSE)
            /\ UNCHANGED <<alerts, alerts_csv, mail_calls, outbox>>
       ELSE LET list == EvaluateAlerts(kpi_csv.rows)
            IN  /\ alerts' = list
                /\ IF list # <<>>
                   THEN \E writeOk \in BOOLEAN :
                          IF writeOk
                          THEN /\ alerts_csv' = ToCsv(TRUE, list)
                               /\ mail_calls' = mail_calls + 1
                               /\ \E transportOk \in BOOLEAN :
                                    LET sent == SendAlertEmail(list, transportOk)
                                    IN  /\ outbox' = IF sent THEN list ELSE outbox
                                        /\ IF GoesOnAfterSend(sent)
                                           THEN /\ refresh_status' =
                                                     Record(refresh_status, "alerts",
                                                            SuccessEntry(Now, Len(list)))
                                                /\ Return("alerts", TRUE)
                                           ELSE /\ refresh_status' =
                                                     Record(refresh_status, "alerts",
                                                            ErrorEntry(Now, "email"))
                                                /\ Return("alerts", FALSE)
                          ELSE /\ refresh_status' = Record(refresh_status, "alerts",
                                                           ErrorEntry(Now, "write"))
                               /\ Return("alerts", FALSE)
                               /\ UNCHANGED <<alerts_csv, mail_calls, outbox>>
                   ELSE /\ refresh_status' = Record(refresh_status, "alerts",
                                                    SuccessEntry(Now, Len(list)))
                        /\ Return("alerts", TRUE)
                        /\ UNCHANGED <<alerts_csv, mail_calls, outbox>>
    /\ UNCHANGED <<cycle, engine, created, returned, campaign_csv, budget_csv,
                   kpi_csv, status_json>>

\* save_refresh_status, then the return of full_refresh
SaveRefreshStatus ==
    /\ pc = "save"
    /\ \E writeOk \in BOOLEAN :
         /\ status_json' = IF writeOk
                           THEN [exists |-> TRUE, content |-> refresh_status]
                           ELSE status_json
         /\ calls' = Append(calls, [stage |-> "save_refresh_status", ok |-> writeOk])
    /\ returned' = FullRefreshResult(success_count)
    /\ pc' = "done"
    /\ UNCHANGED <<cycle, engine, created, refresh_status, success_count,
                   campaign_csv, budget_csv, kpi_csv, alerts_csv, alerts,
                   mail_calls, outbox>>

Next ==
    \/ FullRefreshStart
    \/ RefreshCampaignData
    \/ RefreshBudgetData
    \/ CalculateKpis
    \/ GenerateAlerts
    \/ SaveRefreshStatus

Spec == Init /\ [][Next]_vars

\* full_refresh runs to completion once entered: every stage is a blocking
\* call made by the single scheduler thread.
FairSpec == Spec /\ WF_vars(Next)

\* ------------------------------------------------------------- claims
\* The call of `stage` in the current run has returned, with value `ok`.
Called(stage, ok) ==
    \E i \in DOMAIN calls : calls[i].stage = stage /\ calls[i].ok = ok

\* The current run has ended and its save_refresh_status wrote the file.
Persisted == pc = "done" /\ calls[Len(calls)].ok

CallOrder == Stages \o <<"save_refresh_status">>

\* C1: full_refresh returns true exactly when all four stage calls of the
\* run returned true, and then the status map of the run (and the file, if
\* the run wrote it) holds a success entry of this run for all four stages.
C1_TrueOnlyIfAllFourSucceeded ==
    pc = "done" =>
        /\ returned <=> \A s \in StageNames : Called(s, TRUE)
        /\ returned =>
             \A s \in StageNames : /\ refresh_status[s].status = "success"
                                   /\ refresh_status[s].timestamp = cycle
        /\ (returned /\ Persisted) =>
             \A s \in StageNames : status_json.content[s].status = "success"

C1_Witness == Persisted /\ returned

\* C2: the calls of a run are campaign, budget, KPI, alerts, then the save,
\* each once and in this order whatever the earlier calls returned; until
\* the save the status file holds nothing written in this run; the run is
\* never stuck before Done and is at Done with all five calls made.
C2_StagesInFixedOrder ==
    /\ Len(calls) <= 5
    /\ \A i \in DOMAIN calls : calls[i].stage = CallOrder[i]
    /\ pc = "campaign" => Len(calls) = 0
    /\ pc = "budget" => Len(calls) = 1
    /\ pc = "kpi" => Len(calls) = 2
    /\ pc = "alerts" => Len(calls) = 3
    /\ pc = "save" => Len(calls) = 4
    /\ (pc \in {"campaign", "budget", "kpi", "alerts", "save"} /\ status_json.exists) =>
         \A s \in StageNames : \/ status_json.content[s] = NoEntry
                                \/ status_json.content[s].timestamp < cycle
    /\ pc = "done" => Len(calls) = 5
    /\ pc \in {"campaign", "budget", "kpi", "alerts", "save"} => ENABLED Next

C2_Witness ==
    /\ pc = "done"
    /\ Called("campaign_data", FALSE)
    /\ Called("kpi_calculation", FALSE)
    /\ Called("alerts", TRUE)

\* C3: every stage call that has returned in this run left an entry of
\* this run in the status map: success if it returned true, error if false.
C3_EveryCallRecordsItsOutcome ==
    \A i \in DOMAIN calls :
        calls[i].stage \in StageNames =>
            LET entry == refresh_status[calls[i].stage]
            IN  /\ entry.status = IF calls[i].ok THEN "success" ELSE "error"
                /\ entry.timestamp = cycle

\* C4: the status map is empty when the first stage of a run begins, and
\* the map a run persists holds no entry older than the run.
C4_StatusMapResetEachRun ==
    /\ pc = "campaign" => \A s \in StageNames : refresh_status[s] = NoEntry
    /\ Persisted =>
         \A s \in StageNames :
             \/ status_json.content[s] = NoEntry
             \/ status_json.content[s].timestamp = cycle

\* C5: a step changes the entry of no stage but the one whose call returns
\* in that step, and the file written by the save is the map as it stands;
\* so a run whose budget stage succeeded and whose KPI stage failed
\* persists the budget success entry, with its count, next to the KPI error.
C5_StageIsolation ==
    /\ [][ /\ \A s \in StageNames :
                refresh_status'[s] # refresh_status[s] =>
                    /\ Len(calls') = Len(calls) + 1
                    /\ calls'[Len(calls')].stage = s
           /\ status_json' # status_json => status_json'.content = refresh_status
         ]_vars
    /\ [](Persisted /\ Called("budget_data", TRUE) /\ Called("kpi_calculation", FALSE)
            => /\ status_json.content["budget_data"].status = "success"
               /\ status_json.content["budget_data"].timestamp = cycle
               /\ status_json.content["budget_data"].count \in 0..MaxBudgetRows
               /\ status_json.content["kpi_calculation"].status = "error"
               /\ status_json.content["kpi_calculation"].timestamp = cycle)

C5_Witness ==
    /\ Persisted
    /\ Called("budget_data", TRUE)
    /\ Called("kpi_calculation", FALSE)
    /\ cycle = 2

\* C6: create_engine is called at most once in the life of the object.
C6_EngineCreatedAtMostOnce == created <= 1

AllZero(row) ==
    /\ row.total_spend = 0 /\ row.revenue_generated = 0
    /\ row.leads_generated = 0 /\ row.conversions = 0
    /\ row.clicks = 0 /\ row.impressions = 0

\* C7: when the KPI and alert stages of a run both succeeded on a snapshot
\* holding one campaign whose six inputs are 0, the KPI record has all
\* derived metrics 0 and the alert list is empty.
C7_AllZeroCampaignNoAlerts ==
    ( /\ Called("kpi_calculation", TRUE) /\ Called("alerts", TRUE)
      /\ Len(campaign_csv.rows) = 1 /\ AllZero(campaign_csv.rows[1]) )
    => /\ kpi_csv.rows[1].roi_percentage = 0
       /\ kpi_csv.rows[1].cost_per_lead = 0
       /\ kpi_csv.rows[1].cost_per_acquisition = 0
       /\ kpi_csv.rows[1].conversion_rate = 0
       /\ kpi_csv.rows[1].click_through_rate = 0
       /\ kpi_csv.rows[1].net_profit = 0
       /\ kpi_csv.rows[1].profitability_score[1] = 0
       /\ alerts = <<>>

\* C8: when the campaign stage fetched an empty list and the KPI stage
\* succeeded on it, the KPI list is empty with 0 campaigns processed, the
\* alert stage succeeds with alerts_count 0, and no email is attempted.
C8_EmptyInputThroughPipeline ==
    ( /\ pc \in {"save", "done"}
      /\ Called("campaign_data", TRUE) /\ campaign_csv.rows = <<>>
      /\ Called("kpi_calculation", TRUE) )
    => /\ kpi_csv.rows = <<>>
       /\ refresh_status["kpi_calculation"].count = 0
       /\ Called("alerts", TRUE)
       /\ alerts = <<>>
       /\ refresh_status["alerts"].status = "success"
       /\ refresh_status["alerts"].count = 0
       /\ mail_calls = 0

RuleNo(issue) ==
    CASE issue = "Negative ROI" -> 1
      [] issue = "High Cost Per Lead" -> 2
      [] issue = "Low Conversion Rate" -> 3

Breaks(kpi, rule) ==
    CASE rule = 1 -> kpi.roi_percentage < 0
      [] rule = 2 -> kpi.cost_per_lead > 10000
      [] rule = 3 -> kpi.conversion_rate < 500

Position(kpis, id) == CHOOSE i \in DOMAIN kpis : kpis[i].campaign_id = id

\* C9: after a successful alert stage, the alert list holds, for every KPI
\* record and every rule, exactly one alert if the record breaks the rule
\* and none otherwise; alerts are ordered by rule, and within a rule by the
\* position of their record in the KPI list; a record with roi -10.00,
\* cost per lead 150.00 and conversion rate 3.00 has exactly three alerts.
C9_OneAlertPerBrokenRuleInRuleOrder ==
    Called("alerts", TRUE) =>
        LET kpis == kpi_csv.rows
            Of(i, rule) == { j \in DOMAIN alerts :
                               /\ alerts[j].campaign_id = kpis[i].campaign_id
                               /\ RuleNo(alerts[j].issue) = rule }
        IN  /\ \A i \in DOMAIN kpis, rule \in 1..3 :
                 Cardinality(Of(i, rule)) = IF Breaks(kpis[i], rule) THEN 1 ELSE 0
            /\ \A j \in DOMAIN alerts :
                 \E i \in DOMAIN kpis : alerts[j].campaign_id = kpis[i].campaign_id
            /\ \A j, k \in DOMAIN alerts :
                 j < k =>
                   \/ RuleNo(alerts[j].issue) < RuleNo(alerts[k].issue)
                   \/ /\ RuleNo(alerts[j].issue) = RuleNo(alerts[k].issue)
                      /\ Position(kpis, alerts[j].campaign_id)
                           < Position(kpis, alerts[k].campaign_id)
            /\ \A i \in DOMAIN kpis :
                 ( /\ kpis[i].roi_percentage = -1000
                   /\ kpis[i].cost_per_lead = 15000
                   /\ kpis[i].conversion_rate = 300 )
                 => Cardinality({ j \in DOMAIN alerts :
                                    alerts[j].campaign_id = kpis[i].campaign_id }) = 3

C9_Witness ==
    /\ Called("alerts", TRUE)
    /\ Len(kpi_csv.rows) = 2
    /\ kpi_csv.rows[2].roi_percentage = -1000
    /\ kpi_csv.rows[2].cost_per_lead = 15000
    /\ kpi_csv.rows[2].conversion_rate = 300
    /\ Len(alerts) = 4

\* C10: after a run whose alert stage succeeded, performance_alerts.csv is
\* absent if the run had no alert and holds the run's alerts otherwise.
C10_AlertsFileOmittedWhenNoAlerts ==
    (pc = "done" /\ Called("alerts", TRUE)) =>
        IF alerts = <<>>
        THEN ~alerts_csv.exists
        ELSE alerts_csv.exists /\ alerts_csv.rows = alerts

\* The alert stage of this run called send_alert_email and the transport
\* took no message.
EmailFailed == mail_calls = 1 /\ outbox = <<>>

\* C11: when the alert stage has written a non-empty alert list to
\* performance_alerts.csv and the email send then failed, the stage still
\* returned true with a success entry carrying the alert count; and a run
\* whose other three stages succeeded then returns true.
C11_EmailFailureDoesNotFailStage ==
    EmailFailed =>
        /\ alerts # <<>>
        /\ alerts_csv.exists /\ alerts_csv.rows = alerts
        /\ Called("alerts", TRUE)
        /\ refresh_status["alerts"].status = "success"
        /\ refresh_status["alerts"].timestamp = cycle
        /\ refresh_status["alerts"].count = Len(alerts)
        /\ ( /\ pc = "done"
             /\ Called("campaign_data", TRUE)
             /\ Called("budget_data", TRUE)
             /\ Called("kpi_calculation", TRUE) ) => returned

C11_Witness == EmailFailed /\ pc = "done" /\ returned

\* ------------------------------------------- the KPI stage on its own
\* Snapshots for the KPI stage alone: campaigns with every denominator at
\* 0 in turn, a loss, a profit below, at and above the cap of the score.
KpiCampaigns ==
    { [campaign_id |-> 11, total_spend |-> 0, revenue_generated |-> 0,
       leads_generated |-> 0, conversions |-> 0, clicks |-> 0, impressions |-> 0],
      [campaign_id |-> 12, total_spend |-> 0, revenue_generated |-> 500,
       leads_generated |-> 10, conversions |-> 2, clicks |-> 5, impressions |-> 0],
      [campaign_id |-> 13, total_spend |-> 1000, revenue_generated |-> 500,
       leads_generated |-> 0, conversions |-> 0, clicks |-> 300, impressions |-> 10000],
      [campaign_id |-> 14, total_spend |-> 1000, revenue_generated |-> 500,
       leads_generated |-> 20, conversions |-> 0, clicks |-> 300, impressions |-> 10000],
      [campaign_id |-> 15, total_spend |-> 100, revenue_generated |-> 5000,
       leads_generated |-> 10, conversions |-> 5, clicks |-> 10, impressions |-> 100],
      [campaign_id |-> 16, total_spend |-> 300, revenue_generated |-> 400,
       leads_generated |-> 7, conversions |-> 1, clicks |-> 50, impressions |-> 1200],
      [campaign_id |-> 17, total_spend |-> 100, revenue_generated |-> 400,
       leads_generated |-> 4, conversions |-> 4, clicks |-> 1, impressions |-> 3],
      [campaign_id |-> 18, total_spend |-> 200, revenue_generated |-> 100,
       leads_generated |-> 0, conversions |-> 3, clicks |-> 0, impressions |-> 50] }

KpiCampaignLists ==
    { s \in UNION { [1..n -> KpiCampaigns] : n \in 0..MaxRows } :
        \A i, j \in DOMAIN s : i # j => s[i].campaign_id # s[j].campaign_id }

\* A first run about to call calculate_kpis: the campaign stage has written
\* its snapshot and the budget stage has succeeded on an empty table.
KpiInit ==
    \E rows \in KpiCampaignLists :
        /\ pc = "kpi"
        /\ cycle = 1
        /\ engine = 1
        /\ created = 1
        /\ refresh_status =
             [s \in StageNames |->
                 CASE s = "campaign_data" -> SuccessEntry(1, Len(rows))
                   [] s = "budget_data" -> SuccessEntry(1, 0)
                   [] OTHER -> NoEntry]
        /\ success_count = 2
        /\ returned = FALSE
        /\ calls = <<[stage |-> "campaign_data", ok |-> TRUE],
                     [stage |-> "budget_data", ok |-> TRUE]>>
        /\ campaign_csv = ToCsv(TRUE, rows)
        /\ budget_csv = ToCsv(TRUE, 0)
        /\ kpi_csv = NoFile
        /\ alerts_csv = NoFile
        /\ status_json = NoFile
        /\ alerts = <<>>
        /\ mail_calls = 0
        /\ outbox = <<>>

KpiNext == CalculateKpis

KpiSpec == KpiInit /\ [][KpiNext]_vars

\* C12: a KPI stage that returned true wrote one record per campaign of
\* the snapshot, in the snapshot's order and with its campaign_id; a ratio
\* whose denominator is not positive is 0; profitability_score lies in
\* [0, 10]; and the stage fails on no snapshot it can read, only when its
\* own file cannot be written.
C12_KpisOneToOneGuardedAndClamped ==
    /\ (Called("kpi_calculation", FALSE) /\ CsvReadable(campaign_csv)) =>
         refresh_status["kpi_calculation"].error = "write"
    /\ Called("kpi_calculation", TRUE) =>
         LET in == campaign_csv.rows
             out == kpi_csv.rows
         IN  /\ Len(out) = Len(in)
             /\ refresh_status["kpi_calculation"].count = Len(in)
             /\ \A i \in DOMAIN in :
                  /\ out[i].campaign_id = in[i].campaign_id
                  /\ in[i].total_spend <= 0 => out[i].roi_percentage = 0
                  /\ in[i].leads_generated <= 0 =>
                       out[i].cost_per_lead = 0 /\ out[i].conversion_rate = 0
                  /\ in[i].conversions <= 0 => out[i].cost_per_acquisition = 0
                  /\ in[i].impressions <= 0 => out[i].click_through_rate = 0
                  /\ out[i].profitability_score[2] > 0
                  /\ out[i].profitability_score[1] >= 0
                  /\ out[i].profitability_score[1] <= 10 * out[i].profitability_score[2]

C12_Witness ==
    /\ Called("kpi_calculation", TRUE)
    /\ Len(campaign_csv.rows) = 2
    /\ campaign_csv.rows[1].total_spend = 0
    /\ campaign_csv.rows[1].leads_generated = 0
    /\ campaign_csv.rows[1].conversions = 0
    /\ campaign_csv.rows[1].impressions = 0
    /\ campaign_csv.rows[2].revenue_generated = 5000
    /\ kpi_csv.rows[2].profitability_score = <<10, 1>>

\* The stage failed in this run because its output file could not be written.
WriteFault(stage) ==
    /\ refresh_status[stage].status = "error"
    /\ refresh_status[stage].timestamp = cycle
    /\ refresh_status[stage].error = "write"

\* C13: in a run whose campaign stage failed while a campaign snapshot of
\* an earlier cycle is on disk (and no output file of the run failed to be
\* written), the KPI stage has succeeded with the KPIs of that snapshot,
\* the alert stage has succeeded on them, both entries of the run read
\* success, and the run returns false.
C13_KpiStageReadsStaleSnapshot ==
    ( /\ pc \in {"save", "done"}
      /\ Called("campaign_data", FALSE)
      /\ campaign_csv.exists
      /\ ~WriteFault("kpi_calculation")
      /\ ~WriteFault("alerts") )
    => /\ Called("kpi_calculation", TRUE)
       /\ refresh_status["kpi_calculation"].status = "success"
       /\ refresh_status["kpi_calculation"].timestamp = cycle
       /\ Len(kpi_csv.rows) = Len(campaign_csv.rows)
       /\ \A i \in DOMAIN kpi_csv.rows :
            /\ kpi_csv.rows[i].campaign_id = campaign_csv.rows[i].campaign_id
            /\ kpi_csv.rows[i].last_updated = cycle
       /\ Called("alerts", TRUE)
       /\ refresh_status["alerts"].status = "success"
       /\ refresh_status["alerts"].timestamp = cycle
       /\ refresh_status["alerts"].count = Len(alerts)
       /\ (pc = "done" => ~returned)

====
